---- MODULE Spec2Model ----
(***************************************************************************)
(* Law Study Buddy: the Streamlit query application (streamlit_app.py) and *)
(* the offline index builder (prebuild.py).                                *)
(*                                                                         *)
(* One Streamlit session is modelled.  A script run is the sidebar         *)
(* initialisation (lines 91-112) followed by the handler of the widget     *)
(* that triggered the run (lines 145-196, 208-211, 216-218).  The          *)
(* environment is the persist location ./prebuilt_vector_store, which the  *)
(* builder writes and a user may delete.                                   *)
(*                                                                         *)
(* RagFullPipeline (VectorStore, RagRetriever, rag_advanced) is not among  *)
(* the sources; its operators below follow sections 4.2, 4.3 and 4.5 of    *)
(* the design document.                                                    *)
(*                                                                         *)
(* Units: similarity scores and min_score are in tenths (0..10),           *)
(* confidence is in hundredths (0..100).                                   *)
(***************************************************************************)
EXTENDS Integers, Sequences, FiniteSets, TLC

VARIABLES session, disk, nextGen, build, pc, rerun, run, reply

vars == <<session, disk, nextGen, build, pc, rerun, run, reply>>

----------------------------------------------------------------------------
(* Bounds of the model *)

\* number of collections ever written to the persist location
MaxGen == 2
\* number of chunks in a corpus
MaxChunks == 2
\* length of a typed query
MaxQueryLen == 1
\* largest "Number of sources" a request sets
MaxTopK == 3

----------------------------------------------------------------------------
(* Program constants *)

\* st.slider "Number of sources"
TopKMin == 1
TopKMax == 10
\* st.slider "Minimum confidence", 0.0 .. 1.0 step 0.1, in tenths
MinScoreMin == 0
MinScoreMax == 10
\* 'confidence': 0.8 of the LLM-only result, in hundredths
LLMOnlyConfidence == 80

\* Python's None for a session key that holds a string-like object
None == "None"
\* no VectorStore / RagRetriever object (a handle is the generation it opened)
NoHandle == 0

\* the persist location when os.path.exists(persist_dir) is false
Absent == [present |-> FALSE, gen |-> 0, chunks |-> <<>>, complete |-> FALSE]


\* similarity scores (tenths) the chunks of a corpus have for the query
ChunkScores == {2, 8}

Corpora == UNION {[1..n -> ChunkScores] : n \in 0..MaxChunks}

\* a typed query: " " is white space, "x" any other character
QueryChars == {" ", "x"}
Queries == UNION {[1..n -> QueryChars] : n \in 0..MaxQueryLen}

\* example questions of the right-hand column (two of the four)
examples == {"What constitutes murder under Nigerian criminal law?",
             "Explain the requirements for a valid contract"}

Min(a, b) == IF a < b THEN a ELSE b
Max(a, b) == IF a > b THEN a ELSE b

\* the slider positions requests are sent with
TopKs == TopKMin..Min(TopKMax, MaxTopK)
MinScores == {MinScoreMin, 3, MinScoreMax}

----------------------------------------------------------------------------
(* str.strip() *)

RECURSIVE LStrip(_)
LStrip(q) ==
    IF q # <<>> /\ Head(q) = " " THEN LStrip(Tail(q)) ELSE q

RECURSIVE RStrip(_)
RStrip(q) ==
    IF q # <<>> /\ q[Len(q)] = " " THEN RStrip(SubSeq(q, 1, Len(q) - 1)) ELSE q

strip(q) == RStrip(LStrip(q))

----------------------------------------------------------------------------
(* RagFullPipeline, after the design document *)

\* the chunks a VectorStore handle reads at query time; the store is
\* unavailable when the collection it opened is gone or cannot be reached
StoreAvailable(handle, d, storeUp) ==
    storeUp /\ d.present /\ d.gen = handle

BestIdx(chunks, I) ==
    CHOOSE i \in I : \A j \in I :
        chunks[i] > chunks[j] \/ (chunks[i] = chunks[j] /\ i <= j)

RECURSIVE Ranked(_, _)
Ranked(chunks, I) ==
    IF I = {} THEN <<>>
    ELSE LET b == BestIdx(chunks, I)
         IN  <<[chunk |-> b, score |-> chunks[b]]>> \o Ranked(chunks, I \ {b})

\* VectorStore.search: up to k nearest neighbours, descending by score, ties
\* broken by insertion order
search(chunks, k) ==
    SubSeq(Ranked(chunks, DOMAIN chunks), 1, Min(k, Len(chunks)))

AboveThreshold(results, min_score) ==
    SelectSeq(results, LAMBDA r : r.score >= min_score)

\* retrieve letting the store's error through
retrieve_raises(retriever, d, top_k, min_score, storeUp) ==
    IF ~StoreAvailable(retriever, d, storeUp)
    THEN [raised |-> TRUE, failed |-> TRUE, sources |-> <<>>]
    ELSE [raised |-> FALSE, failed |-> FALSE,
          sources |-> AboveThreshold(search(d.chunks, top_k), min_score)]

\* Retriever.retrieve: an empty sequence, not a failure, when the store is
\* empty or unavailable
retrieve(retriever, d, top_k, min_score, storeUp) ==
    IF ~StoreAvailable(retriever, d, storeUp)
    THEN [raised |-> FALSE, failed |-> TRUE, sources |-> <<>>]
    ELSE [raised |-> FALSE, failed |-> FALSE,
          sources |-> AboveThreshold(search(d.chunks, top_k), min_score)]

\* section 4.5 step 2e
confidence_policy(sources) ==
    IF sources = <<>> THEN LLMOnlyConfidence
    ELSE Max(0, Min(100, 50 + 5 * sources[1].score))

NoResult == [answer |-> "", sources |-> <<>>, confidence |-> 0]

\* rag_advanced(query, retriever, llm, top_k, min_score): section 4.5 step 2
rag_advanced(retriever, d, top_k, min_score, genOK, storeUp) ==
    LET r == retrieve(retriever, d, top_k, min_score, storeUp)
    IN  IF r.raised \/ ~genOK
        THEN [raised |-> TRUE, retrievalFailed |-> r.failed, result |-> NoResult]
        ELSE [raised |-> FALSE, retrievalFailed |-> r.failed,
              result |-> [answer |-> IF r.sources = <<>> THEN "llm-only answer"
                                     ELSE "answer from sources",
                          sources |-> r.sources,
                          confidence |-> confidence_policy(r.sources)]]

\* VectorStore(persist_directory, use_persistent=True, pdf_folder="."):
\* opens the collection at the persist location and populates it there.
\* failAt = -1: no failure; 0: an error before anything is written;
\* k >= 1: an error after the collection was created and k-1 chunks inserted
VectorStore_build(d, gen, chunks, failAt) ==
    IF failAt = -1
    THEN [raised |-> FALSE,
          disk |-> [present |-> TRUE, gen |-> gen, chunks |-> chunks,
                    complete |-> TRUE]]
    ELSE IF failAt = 0
    THEN [raised |-> TRUE, disk |-> d]
    ELSE [raised |-> TRUE,
          disk |-> [present |-> TRUE, gen |-> gen,
                    chunks |-> SubSeq(chunks, 1, failAt - 1),
                    complete |-> FALSE]]

----------------------------------------------------------------------------
(* prebuild.py *)

NoBuild == [status |-> "none", exit |-> 0, count |-> 0]

prebuild_vector_store(d, gen, chunks, failAt) ==
    LET v == VectorStore_build(d, gen, chunks, failAt)
    IN  IF v.raised
        THEN [disk |-> v.disk,
              build |-> [status |-> "failed", exit |-> 1, count |-> 0]]
        ELSE [disk |-> v.disk,
              build |-> [status |-> "ok", exit |-> 0,
                         count |-> Len(v.disk.chunks)]]

----------------------------------------------------------------------------
(* streamlit_app.py: session state and the sidebar initialisation *)

\* st.session_state after the two setdefault calls of a session's first run
NewSession ==
    [rag_initialized |-> FALSE, vector_store_ready |-> FALSE,
     llm |-> None, embedding_manager |-> None,
     vectorstore |-> NoHandle, retriever |-> NoHandle, last_query |-> None]

\* outcome: "ok", "no_llm" (initialize_llm returned nothing) or "exception"
initialize_minimal_rag(outcome) ==
    IF outcome = "ok"
    THEN [llm |-> "llm", embedding_manager |-> "embedding_manager",
          status_msg |-> "Components loaded"]
    ELSE IF outcome = "no_llm"
    THEN [llm |-> None, embedding_manager |-> None, status_msg |-> None]
    ELSE [llm |-> None, embedding_manager |-> None, status_msg |-> "str(e)"]

\* load_vector_store_lazy without its try/except
load_vector_store_lazy_uncaught(d, loadRaises) ==
    IF ~d.present
    THEN [vectorstore |-> NoHandle, raised |-> FALSE,
          status |-> "No legal database available"]
    ELSE IF loadRaises
    THEN [vectorstore |-> NoHandle, raised |-> TRUE, status |-> ""]
    ELSE [vectorstore |-> d.gen, raised |-> FALSE, status |-> "Ready"]

\* the VectorStore handle, or no handle when the directory is absent or the
\* constructor or collection.count() raises (caught: "Database error")
load_vector_store_lazy(d, loadRaises) ==
    IF ~d.present
    THEN [vectorstore |-> NoHandle, raised |-> FALSE,
          status |-> "No legal database available"]
    ELSE IF loadRaises
    THEN [vectorstore |-> NoHandle, raised |-> FALSE,
          status |-> "Database error"]
    ELSE [vectorstore |-> d.gen, raised |-> FALSE, status |-> "Ready"]

\* The names bound in the script's module namespace when line 107 runs.  A
\* Streamlit run executes the script in a fresh module; the imports of
\* RagFullPipeline at lines 48 and 67 are local to the two functions, and the
\* one at line 153 runs later and binds rag_advanced only.
GlobalsAtLine107 ==
    {"st", "os", "traceback", "time", "load_dotenv",
     "initialize_minimal_rag", "load_vector_store_lazy",
     "llm", "embedding_manager", "status_msg", "vectorstore", "vector_status"}

\* Python name lookup: a NameError when the name is unbound
NameResolves(name) == name \in GlobalsAtLine107

\* lines 91-100
InitComponents(s, initOutcome) ==
    IF s.rag_initialized THEN s
    ELSE LET r == initialize_minimal_rag(initOutcome)
         IN  IF r.llm # None /\ r.embedding_manager # None
             THEN [s EXCEPT !.llm = r.llm,
                            !.embedding_manager = r.embedding_manager,
                            !.rag_initialized = TRUE]
             ELSE s

\* lines 102-112, on the session InitComponents left
InitVectorStore(s, d, loadRaises) ==
    IF ~(s.rag_initialized /\ ~s.vector_store_ready)
    THEN [session |-> s, aborted |-> FALSE, loadAttempted |-> FALSE,
          loaded |-> FALSE]
    ELSE LET l == load_vector_store_lazy(d, loadRaises)
         IN  IF l.raised
             THEN [session |-> s, aborted |-> TRUE, loadAttempted |-> TRUE,
                   loaded |-> FALSE]
             ELSE IF l.vectorstore = NoHandle
             THEN [session |-> s, aborted |-> FALSE, loadAttempted |-> TRUE,
                   loaded |-> FALSE]
             ELSE LET s1 == [s EXCEPT !.vectorstore = l.vectorstore]
                  IN  IF ~NameResolves("RagRetriever")
                      THEN [session |-> s1, aborted |-> TRUE,
                            loadAttempted |-> TRUE, loaded |-> TRUE]
                      ELSE [session |-> [s1 EXCEPT
                                           !.retriever = l.vectorstore,
                                           !.vector_store_ready = TRUE],
                            aborted |-> FALSE, loadAttempted |-> TRUE,
                            loaded |-> TRUE]

\* what the persist location holds: "absent", "empty" or "nonempty"
StoreKind(d) ==
    IF ~d.present THEN "absent"
    ELSE IF d.chunks = <<>> THEN "empty" ELSE "nonempty"

----------------------------------------------------------------------------
(* streamlit_app.py: the query handler *)

NoReply ==
    [outcome |-> "none", mode |-> "none", hasResult |-> FALSE,
     result |-> NoResult, shownAnswer |-> FALSE, shownConfidence |-> FALSE,
     shownSources |-> 0, top_k |-> TopKMin, min_score |-> MinScoreMin,
     genOK |-> TRUE, retrievalFailed |-> FALSE, store |-> "absent"]

\* the LLM-only result with another confidence
LLMOnlyResult_lower ==
    [answer |-> "llm-only answer", sources |-> <<>>, confidence |-> 50]

\* the LLM-only result with its confidence written as a percentage
LLMOnlyResult_percent ==
    [answer |-> "llm-only answer", sources |-> <<>>,
     confidence |-> 100 * LLMOnlyConfidence]

\* lines 167-178
LLMOnlyResult ==
    [answer |-> "llm-only answer", sources |-> <<>>,
     confidence |-> LLMOnlyConfidence]

\* lines 180-193: what is rendered of a result
Render(rp, result) ==
    [rp EXCEPT !.outcome = "answered", !.hasResult = TRUE, !.result = result,
               !.shownAnswer = TRUE,
               !.shownConfidence = (result.confidence # 0),
               !.shownSources = Len(result.sources)]

\* the handler calling rag_advanced without min_score (its default, 0)
AnswerQuery_no_min_score(s, d, top_k, min_score, genOK, storeUp) ==
    LET rp == [NoReply EXCEPT !.top_k = top_k, !.min_score = min_score,
                              !.genOK = genOK, !.store = StoreKind(d)]
    IN  IF s.retriever # NoHandle
        THEN LET r == rag_advanced(s.retriever, d, top_k, 0, genOK, storeUp)
             IN  IF r.raised
                 THEN [rp EXCEPT !.outcome = "error_exception", !.mode = "RAG",
                                 !.retrievalFailed = r.retrievalFailed]
                 ELSE Render([rp EXCEPT !.mode = "RAG",
                                        !.retrievalFailed = r.retrievalFailed],
                             r.result)
        ELSE IF ~genOK
             THEN [rp EXCEPT !.outcome = "error_exception", !.mode = "GEN"]
             ELSE Render([rp EXCEPT !.mode = "GEN"], LLMOnlyResult)

\* the handler rendering an empty result when the LLM call raises
AnswerQuery_partial(s, d, top_k, min_score, genOK, storeUp) ==
    LET rp == [NoReply EXCEPT !.top_k = top_k, !.min_score = min_score,
                              !.genOK = genOK, !.store = StoreKind(d)]
    IN  IF s.retriever # NoHandle
        THEN LET r == rag_advanced(s.retriever, d, top_k, min_score,
                                   genOK, storeUp)
             IN  Render([rp EXCEPT !.mode = "RAG",
                                   !.retrievalFailed = r.retrievalFailed],
                        r.result)
        ELSE IF ~genOK
             THEN Render([rp EXCEPT !.mode = "GEN"], NoResult)
             ELSE Render([rp EXCEPT !.mode = "GEN"], LLMOnlyResult)

\* lines 151-196
AnswerQuery(s, d, top_k, min_score, genOK, storeUp) ==
    LET rp == [NoReply EXCEPT !.top_k = top_k, !.min_score = min_score,
                              !.genOK = genOK, !.store = StoreKind(d)]
    IN  IF s.retriever # NoHandle
        THEN LET r == rag_advanced(s.retriever, d, top_k, min_score,
                                   genOK, storeUp)
             IN  IF r.raised
                 THEN [rp EXCEPT !.outcome = "error_exception", !.mode = "RAG",
                                 !.retrievalFailed = r.retrievalFailed]
                 ELSE Render([rp EXCEPT !.mode = "RAG",
                                        !.retrievalFailed = r.retrievalFailed],
                             r.result)
        ELSE IF ~genOK
             THEN [rp EXCEPT !.outcome = "error_exception", !.mode = "GEN"]
             ELSE Render([rp EXCEPT !.mode = "GEN"], LLMOnlyResult)

\* lines 145-196
QueryHandler(s, d, query, top_k, min_score, genOK, storeUp) ==
    IF strip(query) = <<>>
    THEN [NoReply EXCEPT !.outcome = "error_empty_query"]
    ELSE IF ~s.rag_initialized
    THEN [NoReply EXCEPT !.outcome = "error_not_ready"]
    ELSE AnswerQuery(s, d, top_k, min_score, genOK, storeUp)

----------------------------------------------------------------------------
(* The session as a state machine *)

NoRun ==
    [click |-> "none", afterRefresh |-> FALSE, loadAttempted |-> FALSE,
     loaded |-> FALSE, aborted |-> FALSE, count |-> 0, complete |-> FALSE,
     store |-> "absent"]

Clicks == {"none", "query", "example", "refresh"}
InitOutcomes == {"ok", "no_llm", "exception"}

Init ==
    /\ session = NewSession
    /\ disk = Absent
    /\ nextGen = 1
    /\ build = NoBuild
    /\ pc = "idle"
    /\ rerun = "no"
    /\ run = NoRun
    /\ reply = NoReply

\* A script run up to the end of the sidebar initialisation (lines 13-112).
\* click is the widget that triggered the run; a run requested by st.rerun()
\* has none.  An uncaught exception ends the run there.
RunSidebar(click, initOutcome, loadRaises) ==
    /\ pc = "idle"
    /\ rerun # "no" => click = "none"
    /\ LET s1 == InitComponents(session, initOutcome)
           v  == InitVectorStore(s1, disk, loadRaises)
       IN  /\ session' = v.session
           /\ run' = [click |-> click,
                      afterRefresh |-> (rerun = "refresh"),
                      loadAttempted |-> v.loadAttempted,
                      loaded |-> v.loaded,
                      aborted |-> v.aborted,
                      count |-> IF v.loaded THEN Len(disk.chunks) ELSE 0,
                      complete |-> v.loaded /\ disk.complete,
                      store |-> StoreKind(disk)]
           /\ pc' = IF v.aborted THEN "idle" ELSE "body"
    /\ rerun' = "no"
    /\ reply' = NoReply
    /\ UNCHANGED <<disk, nextGen, build>>

\* "Get Legal Answer" (lines 145-196)
QueryButton(query, top_k, min_score, genOK, storeUp) ==
    /\ pc = "body"
    /\ run.click = "query"
    /\ reply' = QueryHandler(session, disk, query, top_k, min_score,
                             genOK, storeUp)
    /\ pc' = "idle"
    /\ UNCHANGED <<session, disk, nextGen, build, rerun, run>>

\* an example question (lines 208-211)
ExampleButton(example) ==
    /\ pc = "body"
    /\ run.click = "example"
    /\ session' = [session EXCEPT !.last_query = example]
    /\ rerun' = "example"
    /\ pc' = "idle"
    /\ UNCHANGED <<disk, nextGen, build, run, reply>>

\* "Refresh System" (lines 216-218)
RefreshButton ==
    /\ pc = "body"
    /\ run.click = "refresh"
    /\ session' = [session EXCEPT !.vector_store_ready = FALSE]
    /\ rerun' = "refresh"
    /\ pc' = "idle"
    /\ UNCHANGED <<disk, nextGen, build, run, reply>>

\* a run no button triggered reaches the end of the script
EndOfScript ==
    /\ pc = "body"
    /\ run.click = "none"
    /\ pc' = "idle"
    /\ UNCHANGED <<session, disk, nextGen, build, rerun, run, reply>>

\* python prebuild.py, run offline between two runs of the app
Prebuild(chunks, failAt) ==
    /\ pc = "idle"
    /\ nextGen <= MaxGen
    /\ LET r == prebuild_vector_store(disk, nextGen, chunks, failAt)
       IN  /\ disk' = r.disk
           /\ build' = r.build
    /\ nextGen' = nextGen + 1
    /\ UNCHANGED <<session, pc, rerun, run, reply>>

\* the persist directory is deleted
RemoveStore ==
    /\ pc = "idle"
    /\ disk.present
    /\ disk' = Absent
    /\ build' = NoBuild
    /\ UNCHANGED <<session, nextGen, pc, rerun, run, reply>>

Next ==
    \/ \E click \in Clicks, initOutcome \in InitOutcomes, loadRaises \in BOOLEAN :
          RunSidebar(click, initOutcome, loadRaises)
    \/ \E query \in Queries, top_k \in TopKs, min_score \in MinScores,
          genOK \in BOOLEAN, storeUp \in BOOLEAN :
          QueryButton(query, top_k, min_score, genOK, storeUp)
    \/ \E example \in examples : ExampleButton(example)
    \/ RefreshButton
    \/ EndOfScript
    \/ \E chunks \in Corpora, failAt \in -1..MaxChunks :
          failAt <= Len(chunks) /\ Prebuild(chunks, failAt)
    \/ RemoveStore

Spec == Init /\ [][Next]_vars

----------------------------------------------------------------------------
(* The query handler on its own: every session and persist location it can *)
(* be handed, one request each.                                            *)

Disks ==
    {Absent} \cup
    [present : {TRUE}, gen : 1..MaxGen, chunks : Corpora, complete : BOOLEAN]

HandlerSessions ==
    {NewSession} \cup
    {[NewSession EXCEPT !.rag_initialized = TRUE, !.llm = "llm",
                        !.embedding_manager = "embedding_manager",
                        !.vectorstore = h, !.retriever = h,
                        !.vector_store_ready = (h # NoHandle)] : h \in 0..MaxGen}

InitHandler ==
    /\ session \in HandlerSessions
    /\ disk \in Disks
    /\ nextGen = MaxGen + 1
    /\ build = NoBuild
    /\ pc = "body"
    /\ rerun = "no"
    /\ run = [NoRun EXCEPT !.click = "query"]
    /\ reply = NoReply

NextHandler ==
    \E query \in Queries, top_k \in TopKs, min_score \in MinScores,
       genOK \in BOOLEAN, storeUp \in BOOLEAN :
       QueryButton(query, top_k, min_score, genOK, storeUp)

SpecHandler == InitHandler /\ [][NextHandler]_vars

----------------------------------------------------------------------------
(* Properties *)

Session_Consistent ==
    /\ session.vector_store_ready <=>
         (session.vectorstore # NoHandle /\ session.retriever # NoHandle)
    /\ session.rag_initialized <=>
         (session.llm # None /\ session.embedding_manager # None)
    /\ session.vectorstore # NoHandle => session.retriever # NoHandle
    /\ session.retriever # NoHandle => session.vector_store_ready

\* C10: at the end of every run vector_store_ready holds exactly when a
\* vectorstore handle and a retriever are bound, rag_initialized holds
\* exactly when llm and embedding_manager are bound, a vectorstore handle
\* is never bound without its retriever nor a retriever while
\* vector_store_ready is false, and rag_initialized, once true, stays true.
C10_SessionConsistent ==
    /\ []((pc = "idle" /\ ~run.aborted) => Session_Consistent)
    /\ [][session.rag_initialized => session'.rag_initialized]_vars

\* C1: a query is answered in RETRIEVAL_AUGMENTED mode exactly when a
\* retriever is bound, and a retriever is bound exactly when the persisted
\* store was loaded and is not empty; in particular, after a run in which
\* the store loads with count > 0 a retriever is bound.
C1_ModeSelection ==
    /\ reply.outcome = "answered" =>
         (reply.mode = "RAG" <=> session.retriever # NoHandle)
    /\ run.loadAttempted =>
         (session.retriever # NoHandle <=> (run.loaded /\ run.count > 0))

\* C2: a query answered while the store is empty or absent has no sources
\* and the generation-only confidence, whatever top_k and min_score are and
\* whatever happened earlier in the session.
C2_NoStoreBaseline ==
    (reply.outcome = "answered" /\ reply.store \in {"absent", "empty"}) =>
        /\ reply.result.sources = <<>>
        /\ reply.shownSources = 0
        /\ reply.result.confidence = LLMOnlyConfidence

\* a query answered with the store absent, after an earlier run had loaded
\* a store that has since been deleted
C2_Witness ==
    /\ reply.outcome = "answered"
    /\ reply.store = "absent"
    /\ session.vectorstore # NoHandle
    /\ reply.min_score = MinScoreMax
    /\ reply.top_k = 2

\* C3: the confidence of every returned result lies in [0,1] (0..100
\* hundredths), in either mode and in the below-threshold fallback.
C3_ConfidenceInUnitInterval ==
    reply.hasResult => reply.result.confidence \in 0..100

\* a retrieval-augmented answer with a source of score 0.8
C3_Witness ==
    /\ reply.hasResult
    /\ reply.mode = "RAG"
    /\ reply.result.sources # <<>>
    /\ reply.result.confidence = 90

Descending(sources) ==
    \A i, j \in DOMAIN sources : i < j => sources[i].score >= sources[j].score

\* C4: a non-empty sources list is in descending order of score, holds no
\* score below the request's min_score and has at most top_k entries.
C4_SourcesRankedAboveThreshold ==
    (reply.hasResult /\ reply.result.sources # <<>>) =>
        /\ Descending(reply.result.sources)
        /\ \A i \in DOMAIN reply.result.sources :
              reply.result.sources[i].score >= reply.min_score
        /\ Len(reply.result.sources) <= reply.top_k

\* of the chunks <<0.2, 0.8>>, top_k = 2 and min_score = 0.3 keep the second
C4_Witness ==
    /\ reply.hasResult
    /\ disk.chunks = <<2, 8>>
    /\ reply.top_k = 2
    /\ reply.min_score = 3
    /\ reply.result.sources = <<[chunk |-> 2, score |-> 8]>>

\* C5: a request whose generation call fails ends in an error, nothing of a
\* result is returned or rendered, and the handler leaves the session state
\* as it was.
C5_GenerationFailure ==
    [][(pc = "body" /\ reply'.mode # "none" /\ ~reply'.genOK) =>
          /\ reply'.outcome = "error_exception"
          /\ ~reply'.hasResult
          /\ ~reply'.shownAnswer
          /\ ~reply'.shownConfidence
          /\ reply'.shownSources = 0
          /\ session' = session]_vars

\* a failed generation call in an initialised session
C5_Witness ==
    /\ reply.outcome = "error_exception"
    /\ ~reply.genOK
    /\ session.rag_initialized
    /\ pc = "idle"

C7_MissingStoreNotFatal ==
    /\ []((run.loadAttempted /\ ~run.loaded) =>
            /\ ~run.aborted
            /\ session.rag_initialized
            /\ session.retriever = NoHandle
            /\ ~session.vector_store_ready
            /\ reply.outcome = "answered" => reply.mode = "GEN")
    /\ [][(/\ pc = "idle" /\ disk' = disk /\ nextGen' = nextGen
           /\ session.rag_initialized /\ ~session.vector_store_ready) =>
             run'.loadAttempted]_vars

\* a query answered in a run whose load of an existing store raised
C7_Witness ==
    /\ run.loadAttempted
    /\ ~run.loaded
    /\ run.store = "nonempty"
    /\ reply.outcome = "answered"
    /\ reply.mode = "GEN"

\* C8: a held vector-store handle is not acquired again unless the run
\* follows a Refresh, and a Refresh discards the handle and its retriever:
\* when the load after it fails, neither is bound any more.
C8_InitOnceRefresh ==
    /\ [][(session.vectorstore # NoHandle
           /\ session'.vectorstore # session.vectorstore) =>
             run'.afterRefresh]_vars
    /\ []((run.afterRefresh /\ run.loadAttempted /\ ~run.loaded) =>
             (session.vectorstore = NoHandle /\ session.retriever = NoHandle))

====
